---- MODULE Spec2Model ----
(***************************************************************************)
(* A model of the Telegram pairing flow of Aether-Claw                     *)
(* (src/telegram_setup.py): setup_telegram and the functions it calls,     *)
(* together with the environment they talk to: the operator at the         *)
(* console, the wall clock, the Telegram Bot API (getMe, getUpdates,       *)
(* sendMessage) and the .env file.                                         *)
(*                                                                         *)
(* Strings are sequences of one-character strings, so that strip(),        *)
(* startswith() and str() are computed, not assumed.                       *)
(***************************************************************************)
EXTENDS Integers, Sequences, FiniteSets, TLC

(***************************************************************************)
(* Bounds of the model.                                                    *)
(***************************************************************************)

\* Number of updates the Bot API receives during one run.
MaxUpdates == 2

\* Lines of a prior .env file.
MaxLines == 3

\* The deadline of a wait loop, in clock ticks.  setup_telegram passes
\* timeout=300 (seconds); the model's clock is coarser, and a blocking call
\* (urlopen, sleep) lets any number of ticks pass.
timeout == 2

(***************************************************************************)
(* Strings.                                                                *)
(***************************************************************************)

\* The value None where the code holds an Optional[str].
None == <<"None">>

\* Characters removed by str.strip() with no argument, those of
\* str.isspace(): space, \t, \n, \r, \f, then the control characters
\* U+000B and U+001C to U+001F, then U+0085, U+00A0 and U+1680, each
\* written as the character itself.  Python also counts the spaces
\* U+2000 to U+200A, U+2028, U+2029, U+202F, U+205F and U+3000, which a
\* string of the model cannot hold.
Whitespace ==
    { " ", "\t", "\n", "\r", "\f",
      "", "", "", "", "",
      "", " ", " " }

RECURSIVE LStrip(_)
LStrip(s) == IF s # <<>> /\ Head(s) \in Whitespace THEN LStrip(Tail(s)) ELSE s

RECURSIVE RStrip(_)
RStrip(s) ==
    IF s # <<>> /\ s[Len(s)] \in Whitespace
    THEN RStrip(SubSeq(s, 1, Len(s) - 1))
    ELSE s

\* str.strip()
Strip(s) == RStrip(LStrip(s))

\* str.startswith(p)
StartsWith(s, p) == Len(s) >= Len(p) /\ SubSeq(s, 1, Len(p)) = p

\* Lines 173-174: tty_input(...).lower() == 'y'. str.lower() gives at least
\* one character for each character of the string, so only a string of one
\* character is lowered to 'y', and of all characters only 'y' and 'Y' are.
LowerIsY(s) == s \in {<<"y">>, <<"Y">>}

\* Lines 211-212: tty_input(...).lower() == 'n'. Of all characters only 'n'
\* and 'N' are lowered to 'n'.
LowerIsN(s) == s \in {<<"n">>, <<"N">>}

DigitChar(d) ==
    CASE d = 0 -> "0" [] d = 1 -> "1" [] d = 2 -> "2" [] d = 3 -> "3"
      [] d = 4 -> "4" [] d = 5 -> "5" [] d = 6 -> "6" [] d = 7 -> "7"
      [] d = 8 -> "8" [] d = 9 -> "9"

RECURSIVE StrNat(_)
StrNat(n) ==
    IF n < 10 THEN <<DigitChar(n)>> ELSE StrNat(n \div 10) \o <<DigitChar(n % 10)>>

\* str(n) of an integer: the conversion applied to chat['id'].
Str(n) == IF n < 0 THEN <<"-">> \o StrNat(0 - n) ELSE StrNat(n)

\* The initiation signal and the command marker.
StartCommand == <<"/", "s", "t", "a", "r", "t">>

CommandMarker == <<"/">>

(***************************************************************************)
(* The operator at the console.                                            *)
(***************************************************************************)

\* What a read of the console yields: a line, or EndOfInput when both
\* input() and the /dev/tty fallback give nothing.
EndOfInput == <<"EOF">>

\* tty_input(prompt, default)
tty_input(line, default) ==
    IF line = EndOfInput THEN default
    ELSE IF Strip(line) # <<>> THEN Strip(line) ELSE default

\* Lines the operator types at the yes/no prompts.
AnswerLines == {<<"y">>, <<"Y">>, <<"n">>, <<" ", "N">>, <<>>, EndOfInput}

\* Lines the operator types at the token prompt.
TokenLines == {<<"T", "1">>, <<" ", "T", "1">>, <<>>, EndOfInput}

(***************************************************************************)
(* The pairing code.                                                       *)
(***************************************************************************)

\* string.digits
Digits == {"0", "1", "2", "3", "4", "5", "6", "7", "8", "9"}

\* k=6 in random.choices(string.digits, k=6)
CodeLength == 6

Code482913 == <<"4", "8", "2", "9", "1", "3">>

Code007000 == <<"0", "0", "7", "0", "0", "0">>

\* What the random generator yields for random.choices(string.digits, ...):
\* a stream of digits, one per draw.  The generator is an input of the
\* run; these are the streams the model follows.
RandomDigits ==
    { Code482913 \o <<"5">>,
      Code007000 \o <<"1">> }

\* Mutation of line 38: k=5.
generate_pairing_codeShort(draws) == SubSeq(draws, 1, CodeLength - 1)

\* generate_pairing_code(): ''.join of the first k draws of the generator.
generate_pairing_code(draws) == SubSeq(draws, 1, CodeLength)

\* The codes generate_pairing_code returns on the streams of the model.
CodeSamples == {generate_pairing_code(draws) : draws \in RandomDigits}

(***************************************************************************)
(* The Bot API: updates and the getUpdates queue.                          *)
(***************************************************************************)

\* Conversations that write to the bot (chat.id is an integer in the API).
Chats == {777, 888}

\* Texts a conversation sends.
Texts ==
    { StartCommand,
      StartCommand \o <<" ">>,
      Code482913,
      Code482913 \o <<" ">>,
      Code482913 \o <<"a">>,
      Code007000 }

\* An update with a well-formed message: {update_id, message: {chat: {id}, text}}.
MessageBodies == [has_message : {TRUE}, has_chat : {TRUE}, chat : Chats, text : Texts]

\* An update without a 'message' field (an edited message, a channel post, ...).
NonMessageBody == [has_message |-> FALSE, has_chat |-> FALSE, chat |-> 0, text |-> <<>>]

\* An update whose message lacks the 'chat' field.
MalformedBody == [has_message |-> TRUE, has_chat |-> FALSE, chat |-> 0, text |-> <<>>]

UpdateBodies == MessageBodies \cup {NonMessageBody, MalformedBody}

MakeUpdate(id, body) ==
    [update_id |-> id, has_message |-> body.has_message, has_chat |-> body.has_chat,
     chat |-> body.chat, text |-> body.text]

\* No update: the value of hs_match and ch_match before a match.
NoUpdate == [update_id |-> 0, has_message |-> FALSE, has_chat |-> FALSE, chat |-> 0, text |-> <<>>]

\* getUpdates?offset=n as the Bot API answers it: the updates with
\* update_id >= n, in ascending order; those below n are confirmed and
\* dropped.  offset 0 (or no offset) returns every unconfirmed update.
ServerGetUpdates(q, off) == SelectSeq(q, LAMBDA u : u.update_id >= off)

\* The answers to one getUpdates request the code tells apart:
\* {ok: true, result: [...]}, {ok: false}, and a raised exception
\* (transport failure, HTTP error, malformed JSON).
PollOutcomes == {"ok", "not_ok", "exception"}

NoResponse == [kind |-> "none", result |-> <<>>]

\* The answers to getMe that verify_bot_token and its caller tell apart.
\* The result of an answer with ok true is named by its shape: an object
\* with fields, the empty object {}, a value that is not an object and is
\* true ('x', 5, [1]), one that is false ([], 0, '', false), or none (the
\* field is missing or null).
GetMeOutcomes ==
    {"ok_with_result", "ok_without_result", "ok_result_empty_object",
     "ok_result_not_object", "ok_result_falsy", "not_ok", "exception", "malformed"}

\* Mutation of line 47: the 'ok' field of the answer is not tested.
verify_bot_tokenOkUntested(getme) ==
    CASE getme = "ok_with_result" -> <<TRUE, "object">>
      [] getme = "ok_result_empty_object" -> <<TRUE, "empty_object">>
      [] getme = "ok_result_not_object" -> <<TRUE, "not_object">>
      [] getme = "ok_result_falsy" -> <<TRUE, "falsy">>
      [] getme = "ok_without_result" -> <<TRUE, "None">>
      [] getme = "not_ok" -> <<TRUE, "object">>
      [] getme = "exception" -> <<FALSE, "None">>
      [] getme = "malformed" -> <<FALSE, "None">>

\* verify_bot_token(token): <<is_valid, bot_info>>, bot_info named by its shape.
verify_bot_token(getme) ==
    CASE getme = "ok_with_result" -> <<TRUE, "object">>
      [] getme = "ok_result_empty_object" -> <<TRUE, "empty_object">>
      [] getme = "ok_result_not_object" -> <<TRUE, "not_object">>
      [] getme = "ok_result_falsy" -> <<TRUE, "falsy">>
      [] getme = "ok_without_result" -> <<TRUE, "None">>
      [] getme = "not_ok" -> <<FALSE, "None">>
      [] getme = "exception" -> <<FALSE, "None">>
      [] getme = "malformed" -> <<FALSE, "None">>

\* The truth value Python gives bot_info in 'is_valid and bot_info': None,
\* the empty object and the false values are false.
Truthy(bot_info) == bot_info \notin {"None", "empty_object", "falsy"}

(***************************************************************************)
(* The .env file.                                                          *)
(***************************************************************************)

\* The file does not exist.
NoFile == <<"ENOENT">>

TokenKey ==
    <<"T", "E", "L", "E", "G", "R", "A", "M", "_", "B", "O", "T", "_",
      "T", "O", "K", "E", "N", "=">>

ChatIdKey ==
    <<"T", "E", "L", "E", "G", "R", "A", "M", "_", "C", "H", "A", "T", "_",
      "I", "D", "=">>

Newline == <<"\n">>

\* Contents of the file before the run.
InitFiles ==
    { NoFile,
      <<"A", "=", "1", "\n">> \o TokenKey
        \o <<"o", "l", "d", "\n", "B", "=", "2", "\n">> }

\* open(env_file, 'r'): text mode with universal newlines, '\r\n' and a
\* lone '\r' are read as '\n'.
RECURSIVE UniversalNewlines(_)
UniversalNewlines(content) ==
    IF content = <<>> THEN <<>>
    ELSE IF Head(content) = "\r"
    THEN IF Len(content) >= 2 /\ content[2] = "\n"
         THEN <<"\n">> \o UniversalNewlines(SubSeq(content, 3, Len(content)))
         ELSE <<"\n">> \o UniversalNewlines(Tail(content))
    ELSE <<Head(content)>> \o UniversalNewlines(Tail(content))

\* The pieces of a text that end with '\n', and what follows the last.
RECURSIVE SplitLines(_)
SplitLines(text) ==
    IF text = <<>> THEN <<>>
    ELSE LET nl == {i \in 1..Len(text) : text[i] = "\n"}
         IN  IF nl = {} THEN <<text>>
             ELSE LET k == CHOOSE i \in nl : \A j \in nl : i <= j
                  IN  <<SubSeq(text, 1, k)>> \o SplitLines(SubSeq(text, k + 1, Len(text)))

\* open(env_file, 'r') and f.readlines(): the lines of the content, each
\* with its terminator.
readlines(content) == SplitLines(UniversalNewlines(content))

\* The loop of lines 275-283: replace the lines of the two keys.
RECURSIVE ReplaceLines(_, _, _)
ReplaceLines(env_lines, tok, cid) ==
    IF env_lines = <<>> THEN <<>>
    ELSE LET line == Head(env_lines)
             new  == IF StartsWith(line, TokenKey) THEN TokenKey \o tok \o Newline
                     ELSE IF StartsWith(line, ChatIdKey) THEN ChatIdKey \o cid \o Newline
                     ELSE line
         IN  <<new>> \o ReplaceLines(Tail(env_lines), tok, cid)

\* new_lines of lines 270-288.
MergeLines(env_lines, tok, cid) ==
    LET token_found   == \E i \in 1..Len(env_lines) : StartsWith(env_lines[i], TokenKey)
        chat_id_found == \E i \in 1..Len(env_lines) :
                            /\ ~StartsWith(env_lines[i], TokenKey)
                            /\ StartsWith(env_lines[i], ChatIdKey)
    IN  ReplaceLines(env_lines, tok, cid)
          \o (IF token_found THEN <<>> ELSE <<Newline \o TokenKey \o tok \o Newline>>)
          \o (IF chat_id_found THEN <<>> ELSE <<ChatIdKey \o cid \o Newline>>)

\* f.writelines(new_lines): the lines one after the other.
RECURSIVE writelines(_)
writelines(lines) == IF lines = <<>> THEN <<>> ELSE Head(lines) \o writelines(Tail(lines))

\* The content of the file after lines 264-292 ran without an error.
SavedContent(content, tok, cid) ==
    writelines(MergeLines(IF content = NoFile THEN <<>> ELSE readlines(content), tok, cid))

\* The outcomes of the file operations of lines 266-292: no error; an error
\* reading the file; an error opening it for writing; an error writing to
\* it (or closing it) after open(env_file, 'w') has emptied it.
FileOutcomes == {"ok", "read_error", "open_error", "write_error"}

\* What a write that fails leaves in the file: the part of the new content
\* that reached the file before the error, any prefix of it.
WrittenBeforeError(content) == {SubSeq(content, 1, n) : n \in 0..Len(content)}

(***************************************************************************)
(* State.                                                                  *)
(***************************************************************************)

VARIABLES
    pc,            \* the place setup_telegram (or the function it called) is at
    outcome,       \* how the run ended, "running" until it has
    token,         \* setup_telegram: token
    pairing_code,  \* setup_telegram: pairing_code
    chat_id,       \* setup_telegram: chat_id
    start_time,    \* wait_for_*: start_time
    offset,        \* wait_for_*: offset
    resp,          \* the answer to the getUpdates request in flight
    updates,       \* wait_for_*: the updates of the batch not yet iterated
    now,           \* the wall clock, time.time()
    queue,         \* Bot API: the unconfirmed updates
    next_id,       \* Bot API: the update_id of the next update
    sent,          \* Bot API: the sendMessage requests made
    env_file,      \* the content of the .env file
    environ,       \* os.environ, the two keys
    verified,      \* history: tokens getMe has accepted
    polled,        \* history: a getUpdates request has been made
    phases,        \* history: the phases entered, in order
    hs_seen,       \* history: update_ids iterated by wait_for_start_command
    ch_seen,       \* history: update_ids iterated by wait_for_pairing_code
    hs_match,      \* history: the update wait_for_start_command returned on
    ch_match,      \* history: the update wait_for_pairing_code returned on
    ch_end,        \* history: the clock when wait_for_pairing_code returned True
    hs_last_offset,   \* history: offset when wait_for_start_command returned
    ch_first_offset,  \* history: offset of the first request of wait_for_pairing_code
    file_before,   \* history: the content of the .env file before the run
    last_verify,   \* history: the last call of verify_bot_token
    printed,       \* history: the notices printed to the operator
    reported,      \* history: the credentials printed by the except branch of the save
    raised         \* history: update_ids whose processing raised in a wait loop

vars ==
    <<pc, outcome, token, pairing_code, chat_id, start_time, offset, resp,
      updates, now, queue, next_id, sent, env_file, environ, verified, polled,
      phases, hs_seen, ch_seen, hs_match, ch_match, ch_end, hs_last_offset,
      ch_first_offset, file_before, last_verify, printed, reported, raised>>

progVars == <<pc, outcome, token, pairing_code, chat_id, start_time, offset, resp, updates>>

envVars == <<now, queue, next_id, sent, env_file, environ>>

histVars ==
    <<verified, polled, phases, hs_seen, ch_seen, hs_match, ch_match, ch_end,
      hs_last_offset, ch_first_offset, file_before, last_verify, printed,
      reported, raised>>

\* The history variables of the cursor and of the file.
cursorHist == <<hs_last_offset, ch_first_offset, file_before>>

\* The history variables of the console and of verify_bot_token.
noteHist == <<last_verify, printed>>

\* Nothing printed by the except branch of lines 306-313.
NoReport == [token |-> None, chat_id |-> None]

\* No call of verify_bot_token yet.
NoVerify == [getme |-> "none", requests |-> 0, result |-> <<FALSE, "None">>]

\* The return value of setup_telegram, once it has returned.
retval == outcome = "saved"

HandshakePcs == {"hs_loop", "hs_recv", "hs_for", "hs_sleep"}

ChallengePcs == {"ch_loop", "ch_recv", "ch_for", "ch_sleep"}

\* The places where the code is blocked in urlopen or time.sleep.
BlockedPcs == {"hs_recv", "hs_sleep", "ch_recv", "ch_sleep"}

Init ==
    /\ pc = "ask_setup"
    /\ outcome = "running"
    /\ token = None
    /\ pairing_code = None
    /\ chat_id = None
    /\ start_time = 0
    /\ offset = 0
    /\ resp = NoResponse
    /\ updates = <<>>
    /\ now = 0
    /\ queue = <<>>
    /\ next_id = 1
    /\ sent = <<>>
    /\ env_file \in InitFiles
    /\ environ = [TELEGRAM_BOT_TOKEN |-> None, TELEGRAM_CHAT_ID |-> None]
    /\ verified = {}
    /\ polled = FALSE
    /\ phases = <<>>
    /\ hs_seen = <<>>
    /\ ch_seen = <<>>
    /\ hs_match = NoUpdate
    /\ ch_match = NoUpdate
    /\ ch_end = 0
    /\ hs_last_offset = -1
    /\ ch_first_offset = -1
    /\ file_before = env_file
    /\ last_verify = NoVerify
    /\ printed = {}
    /\ reported = NoReport
    /\ raised = {}

(***************************************************************************)
(* The environment.                                                        *)
(***************************************************************************)

\* A conversation writes to the bot (or another update arrives): the Bot API
\* gives it the next update_id and queues it.
Post ==
    /\ pc \in HandshakePcs \cup ChallengePcs \cup {"start_handshake", "send_code"}
    /\ next_id <= MaxUpdates
    /\ \E body \in UpdateBodies : queue' = Append(queue, MakeUpdate(next_id, body))
    /\ next_id' = next_id + 1
    /\ UNCHANGED <<now, sent, env_file, environ>>
    /\ UNCHANGED progVars
    /\ UNCHANGED histVars

\* Time passes while the code is blocked in urlopen or time.sleep.
Tick ==
    /\ pc \in BlockedPcs
    /\ now - start_time < timeout
    /\ now' = now + 1
    /\ UNCHANGED <<queue, next_id, sent, env_file, environ>>
    /\ UNCHANGED progVars
    /\ UNCHANGED histVars

(***************************************************************************)
(* setup_telegram up to the pairing: lines 173-213.                        *)
(***************************************************************************)

Finish(how) ==
    /\ pc' = "done"
    /\ outcome' = how

\* Lines 173-176: the yes/no prompt.
AskSetup ==
    /\ pc = "ask_setup"
    /\ \E line \in AnswerLines :
         LET setup == tty_input(line, <<"n">>)
         IN  IF ~LowerIsY(setup)
             THEN Finish("skipped")
             ELSE pc' = "press_enter" /\ outcome' = outcome
    /\ UNCHANGED <<token, pairing_code, chat_id, start_time, offset, resp, updates>>
    /\ UNCHANGED envVars
    /\ UNCHANGED histVars

\* Line 188: input(), which raises EOFError at the end of the input.
PressEnter ==
    /\ pc = "press_enter"
    /\ \E eof \in BOOLEAN :
         IF eof
         THEN Finish("crashed") /\ phases' = phases
         ELSE pc' = "ask_token" /\ outcome' = outcome /\ phases' = Append(phases, "token")
    /\ UNCHANGED <<token, pairing_code, chat_id, start_time, offset, resp, updates>>
    /\ UNCHANGED envVars
    /\ UNCHANGED <<verified, polled, hs_seen, ch_seen, hs_match, ch_match, ch_end>>
    /\ UNCHANGED cursorHist
    /\ UNCHANGED noteHist
    /\ UNCHANGED <<reported, raised>>

\* Lines 193-210: one round of the token loop, with its getMe request.
AskToken ==
    /\ pc = "ask_token"
    /\ \E line \in TokenLines, getme \in GetMeOutcomes :
         LET token_input == Strip(tty_input(line, <<>>))
             r == verify_bot_token(getme)
             is_valid == r[1]
             bot_info == r[2]
         IN  IF token_input = <<>>
             THEN pc' = "ask_token" /\ UNCHANGED <<outcome, token, verified, last_verify>>
             ELSE /\ last_verify' = [getme |-> getme, requests |-> 1, result |-> r]
                  /\ IF is_valid /\ Truthy(bot_info)
                     THEN /\ token' = token_input
                          /\ verified' = verified \cup {token_input}
                          /\ IF bot_info = "object"
                             THEN pc' = "start_handshake" /\ outcome' = outcome
                             ELSE \* bot_info.get raises AttributeError, line 206
                                  Finish("crashed")
                     ELSE pc' = "ask_retry" /\ UNCHANGED <<outcome, token, verified>>
    /\ UNCHANGED <<pairing_code, chat_id, start_time, offset, resp, updates>>
    /\ UNCHANGED envVars
    /\ UNCHANGED <<polled, phases, hs_seen, ch_seen, hs_match, ch_match, ch_end>>
    /\ UNCHANGED cursorHist
    /\ UNCHANGED printed
    /\ UNCHANGED <<reported, raised>>

\* Lines 211-213: the retry prompt.
AskRetry ==
    /\ pc = "ask_retry"
    /\ \E line \in AnswerLines :
         LET retry == tty_input(line, <<"y">>)
         IN  IF LowerIsN(retry)
             THEN Finish("declined")
             ELSE pc' = "ask_token" /\ outcome' = outcome
    /\ UNCHANGED <<token, pairing_code, chat_id, start_time, offset, resp, updates>>
    /\ UNCHANGED envVars
    /\ UNCHANGED histVars

(***************************************************************************)
(* The parts the two wait loops share in the code, line for line.          *)
(***************************************************************************)

\* Mutations of line 94/137: the offset falls behind, or stays on the update.
NextOffsetBehind(update) == update.update_id - 1

NextOffsetSame(update) == update.update_id

\* Mutation of line 94/137: the offset is assigned after the update was
\* handled, so not when handling it raised.
NextOffsetUnlessRaised(update) ==
    IF update.has_message /\ ~update.has_chat THEN update.update_id ELSE update.update_id + 1

\* offset = update['update_id'] + 1
NextOffset(update) == update.update_id + 1

\* Mutation of line 96/139: the 'message' field is not tested.
HasMessageUntested(update) == TRUE

\* 'message' in update
HasMessage(update) == update.has_message

\* text = msg.get('text', '').strip()
MessageText(update) == Strip(update.text)

\* Mutation of line 101: any text starts the pairing.
IsStartCommandAny(text) == text # <<>>

\* text == '/start'
IsStartCommand(text) == text = StartCommand

\* Mutation of line 145: the conversation is not compared.
FromAnyChat(update, cid) == TRUE

\* str(chat['id']) == chat_id
FromPairedChat(update, cid) == Str(update.chat) = cid

\* Mutation of line 146: no text is the code.
CodeMatchesNever(text, code) == FALSE

\* Mutation of line 146: the comparison is inverted (text != pairing_code).
CodeMatchesInverted(text, code) == text # code

\* text == pairing_code
CodeMatches(text, code) == text = code

\* text.startswith('/')
IsCommand(text) == StartsWith(text, CommandMarker)

\* Lines 139-151, for an update with a message and a chat: what the tests on
\* it decide, in the order the code makes them.
CodeDecision(update, cid, code) ==
    LET text == MessageText(update)
    IN  IF FromPairedChat(update, cid)
        THEN IF CodeMatches(text, code) THEN "return_true"
             ELSE IF IsCommand(text) THEN "continue"
             ELSE "next"
        ELSE "next"

\* Mutation of lines 82/127: while True.
NoDeadline == TRUE

\* time.time() - start_time < timeout
BeforeDeadline == now - start_time < timeout

\* The answer of the Bot API to getUpdates with this offset, as the code
\* receives it.
Response(o, off) ==
    IF o = "ok" THEN [kind |-> "ok", result |-> ServerGetUpdates(queue, off)]
    ELSE [kind |-> o, result |-> <<>>]

(***************************************************************************)
(* wait_for_start_command: lines 71-111, and its call, lines 223-231.      *)
(***************************************************************************)

\* Lines 223-226 and 79-80: the code is drawn, the handshake loop begins.
StartHandshake ==
    /\ pc = "start_handshake"
    /\ \E draws \in RandomDigits : pairing_code' = generate_pairing_code(draws)
    /\ start_time' = now
    /\ offset' = 0
    /\ pc' = "hs_loop"
    /\ phases' = Append(phases, "handshake")
    /\ UNCHANGED <<outcome, token, chat_id, resp, updates>>
    /\ UNCHANGED envVars
    /\ UNCHANGED <<verified, polled, hs_seen, ch_seen, hs_match, ch_match, ch_end>>
    /\ UNCHANGED cursorHist
    /\ UNCHANGED noteHist
    /\ UNCHANGED <<reported, raised>>

\* Lines 82-88: the deadline has not passed, a getUpdates request is made.
\* (Without ?offset= when offset is 0, which the Bot API answers alike.)
HsPoll ==
    /\ pc = "hs_loop"
    /\ BeforeDeadline
    /\ \E o \in PollOutcomes :
         /\ resp' = Response(o, offset)
         /\ queue' = IF o = "ok" THEN ServerGetUpdates(queue, offset) ELSE queue
    /\ pc' = "hs_recv"
    /\ polled' = TRUE
    /\ UNCHANGED <<outcome, token, pairing_code, chat_id, start_time, offset, updates>>
    /\ UNCHANGED <<now, next_id, sent, env_file, environ>>
    /\ UNCHANGED <<verified, phases, hs_seen, ch_seen, hs_match, ch_match, ch_end>>
    /\ UNCHANGED cursorHist
    /\ UNCHANGED noteHist
    /\ UNCHANGED <<reported, raised>>

\* Mutation of lines 228-231: the timeout does not end setup_telegram.
HsTimeoutFallsThrough ==
    /\ pc = "hs_loop"
    /\ ~BeforeDeadline
    /\ pc' = "send_code"
    /\ UNCHANGED <<outcome, token, pairing_code, chat_id, start_time, offset, resp, updates>>
    /\ UNCHANGED envVars
    /\ UNCHANGED histVars

\* Lines 82, 111 and 228-231: the deadline has passed, None is returned and
\* setup_telegram returns False.
HsTimeout ==
    /\ pc = "hs_loop"
    /\ ~BeforeDeadline
    /\ Finish("handshake_timeout")
    /\ UNCHANGED <<token, pairing_code, chat_id, start_time, offset, resp, updates>>
    /\ UNCHANGED envVars
    /\ UNCHANGED histVars

\* Mutation of lines 106-107: the failure of the request is not caught.
HsRecvPropagates ==
    /\ pc = "hs_recv"
    /\ IF resp.kind = "ok"
       THEN updates' = resp.result /\ pc' = "hs_for" /\ outcome' = outcome
       ELSE updates' = <<>> /\ Finish("crashed")
    /\ resp' = NoResponse
    /\ UNCHANGED <<token, pairing_code, chat_id, start_time, offset>>
    /\ UNCHANGED envVars
    /\ UNCHANGED histVars

\* Lines 88-92 and 106-107: the answer arrives.
HsRecv ==
    /\ pc = "hs_recv"
    /\ IF resp.kind = "ok"
       THEN updates' = resp.result /\ pc' = "hs_for"
       ELSE updates' = <<>> /\ pc' = "hs_sleep"
    /\ resp' = NoResponse
    /\ UNCHANGED <<outcome, token, pairing_code, chat_id, start_time, offset>>
    /\ UNCHANGED envVars
    /\ UNCHANGED histVars

\* Lines 93-107: one iteration of 'for update in updates', or its end.
HsFor ==
    /\ pc = "hs_for"
    /\ IF updates = <<>>
       THEN /\ pc' = "hs_sleep"
            /\ UNCHANGED <<offset, updates, chat_id, hs_seen, hs_match, phases, hs_last_offset>>
       ELSE LET update == Head(updates)
            IN  /\ offset' = NextOffset(update)
                /\ hs_seen' = Append(hs_seen, update.update_id)
                /\ IF ~HasMessage(update)
                   THEN /\ updates' = Tail(updates)
                        /\ pc' = "hs_for"
                        /\ UNCHANGED <<chat_id, hs_match, phases, hs_last_offset>>
                   ELSE IF ~update.has_chat
                   THEN \* msg['chat'] raises KeyError, caught at line 106
                        /\ updates' = <<>>
                        /\ pc' = "hs_sleep"
                        /\ UNCHANGED <<chat_id, hs_match, phases, hs_last_offset>>
                   ELSE IF IsStartCommand(MessageText(update))
                   THEN /\ chat_id' = Str(update.chat)
                        /\ hs_match' = update
                        /\ hs_last_offset' = offset'
                        /\ updates' = <<>>
                        /\ pc' = "send_code"
                        /\ phases' = Append(phases, "challenge")
                   ELSE /\ updates' = Tail(updates)
                        /\ pc' = "hs_for"
                        /\ UNCHANGED <<chat_id, hs_match, phases, hs_last_offset>>
    /\ UNCHANGED <<outcome, token, pairing_code, start_time, resp>>
    /\ UNCHANGED envVars
    /\ UNCHANGED <<verified, polled, ch_seen, ch_match, ch_end, ch_first_offset, file_before>>
    /\ UNCHANGED noteHist
    /\ UNCHANGED reported
    /\ raised' = IF updates # <<>> /\ HasMessage(Head(updates)) /\ ~Head(updates).has_chat
                 THEN raised \cup {Head(updates).update_id}
                 ELSE raised

\* Line 109: time.sleep(2).
HsSleep ==
    /\ pc = "hs_sleep"
    /\ pc' = "hs_loop"
    /\ UNCHANGED <<outcome, token, pairing_code, chat_id, start_time, offset, resp, updates>>
    /\ UNCHANGED envVars
    /\ UNCHANGED histVars

(***************************************************************************)
(* wait_for_pairing_code: lines 114-157, and its call, lines 233-251.      *)
(***************************************************************************)

\* Line 244: the warning printed when the pairing-code message is not sent.
CouldNotSend == "Could not send message (you can still enter code manually)"

\* Mutation of lines 241-244: a pairing-code message that is not sent ends
\* setup_telegram.
SendCodeFatal ==
    /\ pc = "send_code"
    /\ \E ok \in BOOLEAN :
         /\ sent' = Append(sent, [chat_id |-> chat_id, kind |-> "code", code |-> pairing_code, ok |-> ok])
         /\ printed' = IF ok THEN printed ELSE printed \cup {CouldNotSend}
         /\ IF ok THEN pc' = "ch_loop" /\ outcome' = outcome ELSE Finish("challenge_timeout")
    /\ start_time' = now
    /\ offset' = 0
    /\ UNCHANGED <<token, pairing_code, chat_id, resp, updates>>
    /\ UNCHANGED <<now, queue, next_id, env_file, environ>>
    /\ UNCHANGED <<verified, polled, phases, hs_seen, ch_seen, hs_match, ch_match, ch_end>>
    /\ UNCHANGED cursorHist
    /\ UNCHANGED last_verify
    /\ UNCHANGED <<reported, raised>>

\* Lines 233-247 and 124-125: the pairing code is sent to the conversation
\* (sendMessage may fail), the challenge loop begins.
SendCode ==
    /\ pc = "send_code"
    /\ \E ok \in BOOLEAN :
         /\ sent' = Append(sent, [chat_id |-> chat_id, kind |-> "code", code |-> pairing_code, ok |-> ok])
         /\ printed' = IF ok THEN printed ELSE printed \cup {CouldNotSend}
    /\ start_time' = now
    /\ offset' = 0
    /\ pc' = "ch_loop"
    /\ UNCHANGED <<outcome, token, pairing_code, chat_id, resp, updates>>
    /\ UNCHANGED <<now, queue, next_id, env_file, environ>>
    /\ UNCHANGED <<verified, polled, phases, hs_seen, ch_seen, hs_match, ch_match, ch_end>>
    /\ UNCHANGED cursorHist
    /\ UNCHANGED last_verify
    /\ UNCHANGED <<reported, raised>>

\* Lines 127-131: the deadline has not passed, a getUpdates request is made.
ChPoll ==
    /\ pc = "ch_loop"
    /\ BeforeDeadline
    /\ \E o \in PollOutcomes :
         /\ resp' = Response(o, offset)
         /\ queue' = IF o = "ok" THEN ServerGetUpdates(queue, offset) ELSE queue
    /\ pc' = "ch_recv"
    /\ polled' = TRUE
    /\ ch_first_offset' = IF ch_first_offset = -1 THEN offset ELSE ch_first_offset
    /\ UNCHANGED <<outcome, token, pairing_code, chat_id, start_time, offset, updates>>
    /\ UNCHANGED <<now, next_id, sent, env_file, environ>>
    /\ UNCHANGED <<verified, phases, hs_seen, ch_seen, hs_match, ch_match, ch_end>>
    /\ UNCHANGED <<hs_last_offset, file_before>>
    /\ UNCHANGED noteHist
    /\ UNCHANGED <<reported, raised>>

\* Mutation of lines 249-251: after the timeout the pairing starts again.
ChTimeoutRestarts ==
    /\ pc = "ch_loop"
    /\ ~BeforeDeadline
    /\ pc' = "start_handshake"
    /\ UNCHANGED <<outcome, token, pairing_code, chat_id, start_time, offset, resp, updates>>
    /\ UNCHANGED envVars
    /\ UNCHANGED histVars

\* Lines 127, 157 and 249-251: the deadline has passed, False is returned
\* and setup_telegram returns False.
ChTimeout ==
    /\ pc = "ch_loop"
    /\ ~BeforeDeadline
    /\ Finish("challenge_timeout")
    /\ UNCHANGED <<token, pairing_code, chat_id, start_time, offset, resp, updates>>
    /\ UNCHANGED envVars
    /\ UNCHANGED histVars

\* Lines 131-135 and 152-153: the answer arrives.
ChRecv ==
    /\ pc = "ch_recv"
    /\ IF resp.kind = "ok"
       THEN updates' = resp.result /\ pc' = "ch_for"
       ELSE updates' = <<>> /\ pc' = "ch_sleep"
    /\ resp' = NoResponse
    /\ UNCHANGED <<outcome, token, pairing_code, chat_id, start_time, offset>>
    /\ UNCHANGED envVars
    /\ UNCHANGED histVars

\* Mutation of lines 145-151: a wrong text of the conversation ends the wait.
ChForOneGuess ==
    /\ pc = "ch_for"
    /\ IF updates = <<>>
       THEN /\ pc' = "ch_sleep"
            /\ outcome' = outcome
            /\ UNCHANGED <<offset, updates, ch_seen, ch_match, ch_end, phases>>
       ELSE LET update == Head(updates)
            IN  /\ offset' = NextOffset(update)
                /\ ch_seen' = Append(ch_seen, update.update_id)
                /\ IF ~HasMessage(update)
                   THEN /\ updates' = Tail(updates)
                        /\ pc' = "ch_for"
                        /\ outcome' = outcome
                        /\ UNCHANGED <<ch_match, ch_end, phases>>
                   ELSE IF ~update.has_chat
                   THEN \* msg['chat'] raises KeyError, caught at line 152
                        /\ updates' = <<>>
                        /\ pc' = "ch_sleep"
                        /\ outcome' = outcome
                        /\ UNCHANGED <<ch_match, ch_end, phases>>
                   ELSE IF CodeDecision(update, chat_id, pairing_code) = "return_true"
                   THEN /\ ch_match' = update
                        /\ ch_end' = now
                        /\ updates' = <<>>
                        /\ pc' = "send_confirm"
                        /\ outcome' = outcome
                        /\ phases' = Append(phases, "persist")
                   ELSE IF FromPairedChat(update, chat_id) /\ ~IsCommand(MessageText(update))
                   THEN \* a wrong text of the conversation: return False
                        /\ updates' = <<>>
                        /\ Finish("challenge_timeout")
                        /\ UNCHANGED <<ch_match, ch_end, phases>>
                   ELSE /\ updates' = Tail(updates)
                        /\ pc' = "ch_for"
                        /\ outcome' = outcome
                        /\ UNCHANGED <<ch_match, ch_end, phases>>
    /\ UNCHANGED <<token, pairing_code, chat_id, start_time, resp>>
    /\ UNCHANGED envVars
    /\ UNCHANGED <<verified, polled, hs_seen, hs_match>>
    /\ UNCHANGED cursorHist
    /\ UNCHANGED noteHist
    /\ UNCHANGED reported
    /\ raised' = IF updates # <<>> /\ HasMessage(Head(updates)) /\ ~Head(updates).has_chat
                 THEN raised \cup {Head(updates).update_id}
                 ELSE raised

\* Lines 136-153: one iteration of 'for update in updates', or its end.
ChFor ==
    /\ pc = "ch_for"
    /\ IF updates = <<>>
       THEN /\ pc' = "ch_sleep"
            /\ UNCHANGED <<offset, updates, ch_seen, ch_match, ch_end, phases>>
       ELSE LET update == Head(updates)
            IN  /\ offset' = NextOffset(update)
                /\ ch_seen' = Append(ch_seen, update.update_id)
                /\ IF ~HasMessage(update)
                   THEN /\ updates' = Tail(updates)
                        /\ pc' = "ch_for"
                        /\ UNCHANGED <<ch_match, ch_end, phases>>
                   ELSE IF ~update.has_chat
                   THEN \* msg['chat'] raises KeyError, caught at line 152
                        /\ updates' = <<>>
                        /\ pc' = "ch_sleep"
                        /\ UNCHANGED <<ch_match, ch_end, phases>>
                   ELSE IF CodeDecision(update, chat_id, pairing_code) = "return_true"
                   THEN /\ ch_match' = update
                        /\ ch_end' = now
                        /\ updates' = <<>>
                        /\ pc' = "send_confirm"
                        /\ phases' = Append(phases, "persist")
                   ELSE \* a command, a wrong text or another conversation
                        /\ updates' = Tail(updates)
                        /\ pc' = "ch_for"
                        /\ UNCHANGED <<ch_match, ch_end, phases>>
    /\ UNCHANGED <<outcome, token, pairing_code, chat_id, start_time, resp>>
    /\ UNCHANGED envVars
    /\ UNCHANGED <<verified, polled, hs_seen, hs_match>>
    /\ UNCHANGED cursorHist
    /\ UNCHANGED noteHist
    /\ UNCHANGED reported
    /\ raised' = IF updates # <<>> /\ HasMessage(Head(updates)) /\ ~Head(updates).has_chat
                 THEN raised \cup {Head(updates).update_id}
                 ELSE raised

\* Line 155: time.sleep(2).
ChSleep ==
    /\ pc = "ch_sleep"
    /\ pc' = "ch_loop"
    /\ UNCHANGED <<outcome, token, pairing_code, chat_id, start_time, offset, resp, updates>>
    /\ UNCHANGED envVars
    /\ UNCHANGED histVars

(***************************************************************************)
(* setup_telegram after the pairing: lines 253-313.                        *)
(***************************************************************************)

\* Mutation of lines 253-259: no confirmation is sent.
SendConfirmSkipped ==
    /\ pc = "send_confirm"
    /\ pc' = "save"
    /\ UNCHANGED <<outcome, token, pairing_code, chat_id, start_time, offset, resp, updates>>
    /\ UNCHANGED envVars
    /\ UNCHANGED histVars

\* Lines 253-259: the confirmation is sent; its result is ignored.
SendConfirm ==
    /\ pc = "send_confirm"
    /\ \E ok \in BOOLEAN :
         sent' = Append(sent, [chat_id |-> chat_id, kind |-> "confirm", code |-> <<>>, ok |-> ok])
    /\ pc' = "save"
    /\ UNCHANGED <<outcome, token, pairing_code, chat_id, start_time, offset, resp, updates>>
    /\ UNCHANGED <<now, queue, next_id, env_file, environ>>
    /\ UNCHANGED histVars

\* Mutation of lines 306-313: an error of the file operations is not caught.
SaveCredentialsUncaught ==
    /\ pc = "save"
    /\ \E io \in FileOutcomes :
         /\ io = "read_error" => env_file # NoFile
         /\ IF io = "ok"
            THEN /\ env_file' = SavedContent(env_file, token, chat_id)
                 /\ environ' = [TELEGRAM_BOT_TOKEN |-> token, TELEGRAM_CHAT_ID |-> chat_id]
                 /\ reported' = reported
                 /\ Finish("saved")
            ELSE /\ env_file' \in IF io = "write_error"
                                  THEN WrittenBeforeError(SavedContent(env_file, token, chat_id))
                                  ELSE {env_file}
                 /\ environ' = environ
                 /\ reported' = reported
                 /\ Finish("crashed")
    /\ phases' = Append(phases, "finished")
    /\ UNCHANGED <<token, pairing_code, chat_id, start_time, offset, resp, updates>>
    /\ UNCHANGED <<now, queue, next_id, sent>>
    /\ UNCHANGED <<verified, polled, hs_seen, ch_seen, hs_match, ch_match, ch_end>>
    /\ UNCHANGED cursorHist
    /\ UNCHANGED noteHist
    /\ UNCHANGED raised

\* Mutation of lines 306-313: True is returned after an error too.
SaveCredentialsIgnoresError ==
    /\ pc = "save"
    /\ \E io \in FileOutcomes :
         /\ io = "read_error" => env_file # NoFile
         /\ IF io = "ok"
            THEN /\ env_file' = SavedContent(env_file, token, chat_id)
                 /\ environ' = [TELEGRAM_BOT_TOKEN |-> token, TELEGRAM_CHAT_ID |-> chat_id]
                 /\ reported' = reported
                 /\ Finish("saved")
            ELSE /\ env_file' \in IF io = "write_error"
                                  THEN WrittenBeforeError(SavedContent(env_file, token, chat_id))
                                  ELSE {env_file}
                 /\ environ' = environ
                 /\ reported' = [token |-> token, chat_id |-> chat_id]
                 /\ Finish("saved")
    /\ phases' = Append(phases, "finished")
    /\ UNCHANGED <<token, pairing_code, chat_id, start_time, offset, resp, updates>>
    /\ UNCHANGED <<now, queue, next_id, sent>>
    /\ UNCHANGED <<verified, polled, hs_seen, ch_seen, hs_match, ch_match, ch_end>>
    /\ UNCHANGED cursorHist
    /\ UNCHANGED noteHist
    /\ UNCHANGED raised

\* Mutation of lines 290-296: os.environ is set before the file is written.
SaveCredentialsEnvFirst ==
    /\ pc = "save"
    /\ \E io \in FileOutcomes :
         /\ io = "read_error" => env_file # NoFile
         /\ IF io = "ok"
            THEN /\ env_file' = SavedContent(env_file, token, chat_id)
                 /\ environ' = [TELEGRAM_BOT_TOKEN |-> token, TELEGRAM_CHAT_ID |-> chat_id]
                 /\ reported' = reported
                 /\ Finish("saved")
            ELSE /\ env_file' \in IF io = "write_error"
                                  THEN WrittenBeforeError(SavedContent(env_file, token, chat_id))
                                  ELSE {env_file}
                 /\ environ' = IF io = "read_error" THEN environ
                               ELSE [TELEGRAM_BOT_TOKEN |-> token, TELEGRAM_CHAT_ID |-> chat_id]
                 /\ reported' = [token |-> token, chat_id |-> chat_id]
                 /\ Finish("save_failed")
    /\ phases' = Append(phases, "finished")
    /\ UNCHANGED <<token, pairing_code, chat_id, start_time, offset, resp, updates>>
    /\ UNCHANGED <<now, queue, next_id, sent>>
    /\ UNCHANGED <<verified, polled, hs_seen, ch_seen, hs_match, ch_match, ch_end>>
    /\ UNCHANGED cursorHist
    /\ UNCHANGED noteHist
    /\ UNCHANGED raised

\* Lines 262-313: the file is read, merged and written and os.environ is
\* set; an error of the file operations is caught and False is returned.
SaveCredentials ==
    /\ pc = "save"
    /\ \E io \in FileOutcomes :
         /\ io = "read_error" => env_file # NoFile
         /\ IF io = "ok"
            THEN /\ env_file' = SavedContent(env_file, token, chat_id)
                 /\ environ' = [TELEGRAM_BOT_TOKEN |-> token, TELEGRAM_CHAT_ID |-> chat_id]
                 /\ reported' = reported
                 /\ Finish("saved")
            ELSE /\ env_file' \in IF io = "write_error"
                                  THEN WrittenBeforeError(SavedContent(env_file, token, chat_id))
                                  ELSE {env_file}
                 /\ environ' = environ
                 /\ reported' = [token |-> token, chat_id |-> chat_id]
                 /\ Finish("save_failed")
    /\ phases' = Append(phases, "finished")
    /\ UNCHANGED <<token, pairing_code, chat_id, start_time, offset, resp, updates>>
    /\ UNCHANGED <<now, queue, next_id, sent>>
    /\ UNCHANGED <<verified, polled, hs_seen, ch_seen, hs_match, ch_match, ch_end>>
    /\ UNCHANGED cursorHist
    /\ UNCHANGED noteHist
    /\ UNCHANGED raised

(***************************************************************************)
(* The specification of one run of setup_telegram.                         *)
(***************************************************************************)

Next ==
    \/ Post
    \/ Tick
    \/ AskSetup
    \/ PressEnter
    \/ AskToken
    \/ AskRetry
    \/ StartHandshake
    \/ HsPoll
    \/ HsTimeout
    \/ HsRecv
    \/ HsFor
    \/ HsSleep
    \/ SendCode
    \/ ChPoll
    \/ ChTimeout
    \/ ChRecv
    \/ ChFor
    \/ ChSleep
    \/ SendConfirm
    \/ SaveCredentials

Spec == Init /\ [][Next]_vars

(***************************************************************************)
(* The same run when the code keeps running and time keeps passing: a      *)
(* step of a wait loop that can be taken is taken (urlopen returns within  *)
(* its timeout of 30 s, time.sleep(2) returns), and the clock advances     *)
(* again and again while the loop is blocked in them, as each round sleeps *)
(* for 2 s.  Nothing is assumed of the operator or of the conversations.   *)
(***************************************************************************)

LoopStep ==
    \/ HsPoll
    \/ HsTimeout
    \/ HsRecv
    \/ HsFor
    \/ HsSleep
    \/ ChPoll
    \/ ChTimeout
    \/ ChRecv
    \/ ChFor
    \/ ChSleep

FairSpec == Spec /\ WF_vars(LoopStep) /\ SF_vars(Tick)

(***************************************************************************)
(* The specification of a call of wait_for_pairing_code(token, chat_id,    *)
(* pairing_code) with arguments of the caller's choice.                    *)
(***************************************************************************)

\* Values of the chat_id argument.
ChatIdArgs == {Str(c) : c \in Chats}

\* Values of the pairing_code argument: what setup_telegram passes at line
\* 247, a result of generate_pairing_code.
CodeArgs == CodeSamples

\* Values of the pairing_code parameter of line 114, a str of any content:
\* the codes, and a string that begins with the command marker.
AnyCodeArgs == CodeSamples \cup {StartCommand}

\* The entry of wait_for_pairing_code with pairing_code among the codes.
InitWaitCodeOf(codes) ==
    /\ pc = "ch_loop"
    /\ outcome = "running"
    /\ token = <<"T", "1">>
    /\ pairing_code \in codes
    /\ chat_id \in ChatIdArgs
    /\ start_time = 0
    /\ offset = 0
    /\ resp = NoResponse
    /\ updates = <<>>
    /\ now = 0
    /\ queue = <<>>
    /\ next_id = 1
    /\ sent = <<>>
    /\ env_file = NoFile
    /\ environ = [TELEGRAM_BOT_TOKEN |-> None, TELEGRAM_CHAT_ID |-> None]
    /\ verified = {<<"T", "1">>}
    /\ polled = FALSE
    /\ phases = <<>>
    /\ hs_seen = <<>>
    /\ ch_seen = <<>>
    /\ hs_match = NoUpdate
    /\ ch_match = NoUpdate
    /\ ch_end = 0
    /\ hs_last_offset = -1
    /\ ch_first_offset = -1
    /\ file_before = env_file
    /\ last_verify = NoVerify
    /\ printed = {}
    /\ reported = NoReport
    /\ raised = {}

InitWaitCode == InitWaitCodeOf(CodeArgs)

NextWaitCode ==
    \/ Post
    \/ Tick
    \/ ChPoll
    \/ ChTimeout
    \/ ChRecv
    \/ ChFor
    \/ ChSleep

SpecWaitCode == InitWaitCode /\ [][NextWaitCode]_vars

\* wait_for_pairing_code as a function of its own, called with any string
\* as pairing_code.
InitWaitAnyCode == InitWaitCodeOf(AnyCodeArgs)

SpecWaitAnyCode == InitWaitAnyCode /\ [][NextWaitCode]_vars

(***************************************************************************)
(* The specification of the save of lines 262-313 with a binding and a     *)
(* prior .env file of the caller's choice.                                 *)
(***************************************************************************)

\* Lines of a prior file, without their terminators: unrelated lines, a
\* blank line, a comment that mentions a key, lines of the two keys, and a
\* line that ends with '\r' (with its terminator, a CRLF line).
LineSamples ==
    { <<"A", "=", "1">>, <<"B", "=", "2">>, <<>>, <<"#">> \o ChatIdKey \o <<"9">>,
      TokenKey \o <<"o", "l", "d">>, ChatIdKey \o <<"1", "1">>,
      <<"C", "=", "3", "\r">> }

\* The content of a file with these lines, the last one with or without
\* its terminator.
RECURSIVE FileOf(_, _)
FileOf(lines, terminated) ==
    IF lines = <<>> THEN <<>>
    ELSE IF Len(lines) = 1 THEN Head(lines) \o (IF terminated THEN Newline ELSE <<>>)
    ELSE Head(lines) \o Newline \o FileOf(Tail(lines), terminated)

\* Prior files: none, empty, and up to MaxLines lines.
StoreFiles ==
    {NoFile} \cup
    { FileOf(lines, terminated) :
        lines \in UNION {[1..n -> LineSamples] : n \in 0..MaxLines},
        terminated \in BOOLEAN }

\* The binding of the example of the specification.
TokenNew == <<"n", "e", "w">>

ChatId555 == <<"5", "5", "5">>

InitStore ==
    /\ pc = "save"
    /\ outcome = "running"
    /\ token = TokenNew
    /\ pairing_code = Code482913
    /\ chat_id = ChatId555
    /\ start_time = 0
    /\ offset = 0
    /\ resp = NoResponse
    /\ updates = <<>>
    /\ now = 0
    /\ queue = <<>>
    /\ next_id = 1
    /\ sent = <<>>
    /\ env_file \in StoreFiles
    /\ environ = [TELEGRAM_BOT_TOKEN |-> None, TELEGRAM_CHAT_ID |-> None]
    /\ verified = {TokenNew}
    /\ polled = FALSE
    /\ phases = <<"token", "handshake", "challenge", "persist">>
    /\ hs_seen = <<>>
    /\ ch_seen = <<>>
    /\ hs_match = NoUpdate
    /\ ch_match = NoUpdate
    /\ ch_end = 0
    /\ hs_last_offset = -1
    /\ ch_first_offset = -1
    /\ file_before = env_file
    /\ last_verify = NoVerify
    /\ printed = {}
    /\ reported = NoReport
    /\ raised = {}

NextStore == SaveCredentials

SpecStore == InitStore /\ [][NextStore]_vars

(***************************************************************************)
(* Helpers of the properties.                                              *)
(***************************************************************************)

IsPrefix(s, t) == Len(s) <= Len(t) /\ SubSeq(t, 1, Len(s)) = s

\* The order of the phases of one pairing attempt.
PhaseOrder == <<"token", "handshake", "challenge", "persist", "finished">>

MaxOf(S) == CHOOSE m \in S : \A x \in S : x <= m

Range(s) == {s[i] : i \in 1..Len(s)}

\* The values the content of a file gives to a key: what follows the key up
\* to the end of its line.
ValuesOf(content, key) ==
    IF content = NoFile THEN {}
    ELSE { SubSeq(content, i + 1,
                  (CHOOSE j \in (i + 1)..(Len(content) + 1) :
                       /\ j = Len(content) + 1 \/ content[j] = "\n"
                       /\ \A k \in (i + 1)..(j - 1) : content[k] # "\n") - 1) :
           i \in {i \in Len(key)..Len(content) :
                    SubSeq(content, i - Len(key) + 1, i) = key} }

\* The part occurs in the content.
Occurs(part, content) ==
    \E i \in 1..(Len(content) - Len(part) + 1) :
        SubSeq(content, i, i + Len(part) - 1) = part

\* The values of a key whose line reached the file whole, terminator
\* included (a write that failed may have left the beginning of one).
WrittenValuesOf(content, key) ==
    {v \in ValuesOf(content, key) : Occurs(key \o v \o Newline, content)}

\* The conversation ids this run has persisted, in the file or in os.environ.
PersistedChatIds ==
    (IF env_file = file_before THEN {} ELSE WrittenValuesOf(env_file, ChatIdKey))
      \cup (IF environ.TELEGRAM_CHAT_ID = None THEN {} ELSE {environ.TELEGRAM_CHAT_ID})

\* The store (file and os.environ) is as it was before the run.
StoreUntouched ==
    /\ env_file = file_before
    /\ environ = [TELEGRAM_BOT_TOKEN |-> None, TELEGRAM_CHAT_ID |-> None]

CodeMessagesSent == {i \in 1..Len(sent) : sent[i].kind = "code"}

ConfirmMessagesSent == {i \in 1..Len(sent) : sent[i].kind = "confirm"}

\* The updates still unconfirmed at the Bot API that a loop has iterated.
Examined(seen) == {i \in 1..Len(queue) : queue[i].update_id \in Range(seen)}

(***************************************************************************)
(* C1. Every conversation id persisted as TELEGRAM_CHAT_ID (file or        *)
(* os.environ) is the id of the conversation whose message the handshake   *)
(* loop read as '/start' and whose message the challenge loop read as the  *)
(* issued pairing code; a verified token alone persists nothing.           *)
(* (Whether the texts must match character for character is C8 and C9.)    *)
(***************************************************************************)
C1_PersistedChatPaired ==
    \A cid \in PersistedChatIds :
        /\ hs_match.update_id \in Range(hs_seen)
        /\ hs_match.has_message
        /\ Str(hs_match.chat) = cid
        /\ Strip(hs_match.text) = StartCommand
        /\ ch_match.update_id \in Range(ch_seen)
        /\ ch_match.has_message
        /\ Str(ch_match.chat) = cid
        /\ Strip(ch_match.text) = pairing_code
        /\ \E i \in CodeMessagesSent : sent[i].code = pairing_code

C1_Witness ==
    /\ outcome = "saved"
    /\ PersistedChatIds = {Str(888)}
    /\ hs_match.chat = 888

(***************************************************************************)
(* C2. The stages run in the order verify token, wait for '/start', issue  *)
(* and verify the code, persist: no getUpdates request before a token      *)
(* verified, no pairing-code message before a '/start' conversation is     *)
(* known, no write to the store before the code verified; and after a      *)
(* failed stage (skipped, retry declined, handshake timeout, challenge     *)
(* timeout) no later stage has started.                                    *)
(***************************************************************************)
C2_StagesInOrder ==
    /\ IsPrefix(phases, PhaseOrder)
    /\ polled => token # None /\ token \in verified
    /\ CodeMessagesSent # {} =>
         /\ hs_match # NoUpdate
         /\ \A i \in CodeMessagesSent : sent[i].chat_id = Str(hs_match.chat)
    /\ ch_seen # <<>> \/ ch_first_offset # -1 => CodeMessagesSent # {}
    /\ ~StoreUntouched => ch_match # NoUpdate
    /\ ConfirmMessagesSent # {} => ch_match # NoUpdate
    /\ outcome \in {"skipped", "declined"} =>
         token = None /\ ~polled /\ sent = <<>> /\ StoreUntouched
    /\ outcome = "handshake_timeout" =>
         /\ hs_match = NoUpdate
         /\ sent = <<>>
         /\ ch_first_offset = -1
         /\ ch_seen = <<>>
         /\ StoreUntouched
    /\ outcome = "challenge_timeout" =>
         /\ ch_match = NoUpdate
         /\ ConfirmMessagesSent = {}
         /\ StoreUntouched

C2_Witness ==
    /\ outcome = "challenge_timeout"
    /\ ch_seen # <<>>
    /\ Len(sent) = 1

(***************************************************************************)
(* C3. Within one polling loop (wait_for_start_command or                  *)
(* wait_for_pairing_code) no step gives offset a value smaller than the    *)
(* one it had.                                                             *)
(***************************************************************************)
C3_OffsetNeverDecreasesInLoop ==
    [][(pc \in HandshakePcs \cup ChallengePcs) => (offset' >= offset)]_vars

C3_Witness ==
    /\ pc = "ch_sleep"
    /\ Len(ch_seen) >= 2
    /\ ch_first_offset = 0
    /\ offset = 3

(***************************************************************************)
(* C4. In a polling loop, offset is 1 + the largest update_id the loop     *)
(* has iterated over so far (0 before any); so a batch without updates     *)
(* leaves it unchanged.                                                    *)
(***************************************************************************)
C4_OffsetIsMaxPlusOne ==
    /\ pc \in HandshakePcs \cup {"send_code"} =>
         offset = IF hs_seen = <<>> THEN 0 ELSE 1 + MaxOf(Range(hs_seen))
    /\ pc \in ChallengePcs \cup {"send_confirm"} =>
         offset = IF ch_seen = <<>> THEN 0 ELSE 1 + MaxOf(Range(ch_seen))

C4_Witness ==
    /\ pc = "hs_sleep"
    /\ Len(hs_seen) = 2
    /\ offset = 3
    /\ queue # <<>>

(***************************************************************************)
(* C5. The cursor is not reset during a pairing attempt: the offset of     *)
(* the first getUpdates request of the challenge phase is not less than    *)
(* the offset the handshake phase reached.                                 *)
(***************************************************************************)
C5_CursorNotReset ==
    ch_first_offset # -1 /\ hs_last_offset # -1 => ch_first_offset >= hs_last_offset

(***************************************************************************)
(* C6. Over the handshake phase followed by the challenge phase, no        *)
(* update is iterated over (examined) more than once.                      *)
(***************************************************************************)
C6_EachUpdateExaminedOnce ==
    LET seen == hs_seen \o ch_seen
    IN  \A i, j \in 1..Len(seen) : i # j => seen[i] # seen[j]

(***************************************************************************)
(* C7. wait_for_pairing_code returns True only on an update of the bound   *)
(* conversation: the update it returned on never has a chat id different   *)
(* from chat_id, whatever its text.                                        *)
(***************************************************************************)
C7_SuccessOnlyFromBoundChat ==
    /\ ch_match # NoUpdate => ch_match.has_chat /\ Str(ch_match.chat) = chat_id
    /\ pc \in {"send_confirm", "save"} \/ outcome \in {"saved", "save_failed"} =>
         ch_match # NoUpdate

C7_Witness ==
    /\ pc = "ch_sleep"
    /\ ch_match = NoUpdate
    /\ \E i \in Examined(ch_seen) :
         /\ queue[i].has_chat
         /\ Str(queue[i].chat) # chat_id
         /\ queue[i].text = pairing_code

(***************************************************************************)
(* C8. wait_for_pairing_code returns True only on an update whose text is  *)
(* character for character the issued code ("482913 " is not "482913").    *)
(***************************************************************************)
C8_CodeExactlyEqual ==
    ch_match # NoUpdate => ch_match.text = pairing_code

(***************************************************************************)
(* C9. wait_for_start_command returns a conversation id only on an update  *)
(* whose text is exactly '/start', nothing before or after it.             *)
(***************************************************************************)
C9_StartExactlyEqual ==
    hs_match # NoUpdate => hs_match.text = StartCommand

(***************************************************************************)
(* C10. For every pairing_code argument, wait_for_pairing_code never       *)
(* returns True on an update of the bound conversation whose text begins   *)
(* with the command marker '/'.                                            *)
(***************************************************************************)
C10_CommandNeverAccepted ==
    ch_match # NoUpdate /\ FromPairedChat(ch_match, chat_id) => ~IsCommand(ch_match.text)

(***************************************************************************)
(* C10, as the code has it.  For every pairing_code argument that does not *)
(* itself begin with the command marker '/' (every code that               *)
(* generate_pairing_code issues is one), wait_for_pairing_code never       *)
(* returns True on an update whose text begins with '/', and an update of  *)
(* the bound conversation with such a text is passed over: once iterated   *)
(* it is not the update of the return.  With a pairing_code that begins    *)
(* with '/', the text equal to it returns True, the equality of line 146   *)
(* being tested before the marker of line 149.                             *)
(***************************************************************************)
C10_CommandNeverAcceptedForCodes ==
    /\ ch_match # NoUpdate => MessageText(ch_match) = pairing_code
    /\ ch_match # NoUpdate /\ ~IsCommand(pairing_code) => ~IsCommand(ch_match.text)

\* A command of the bound conversation was iterated and passed over, and the
\* code that came after it was accepted.
C10_Witness ==
    /\ pairing_code = Code482913
    /\ ch_seen = <<1, 2>>
    /\ ch_match.update_id = 2
    /\ \E i \in Examined(ch_seen) :
         /\ queue[i].update_id = 1
         /\ queue[i].has_chat
         /\ Str(queue[i].chat) = chat_id
         /\ IsCommand(queue[i].text)

(***************************************************************************)
(* C11. A getUpdates request that fails (an exception, or an answer that   *)
(* is not ok) gives the round no updates, leaves offset as it was, is not  *)
(* propagated, and the loop goes on to its sleep and next round; a phase   *)
(* returns its timeout outcome only when the deadline has passed, however  *)
(* many requests failed.                                                   *)
(***************************************************************************)
C11_PollFailureSwallowed ==
    /\ [](outcome \in {"handshake_timeout", "challenge_timeout"} =>
             now - start_time >= timeout)
    /\ [][(pc \in {"hs_recv", "ch_recv"} /\ resp.kind # "ok" /\ pc' # pc) =>
             (/\ offset' = offset
              /\ updates' = <<>>
              /\ outcome' = "running"
              /\ pc' = (IF pc = "hs_recv" THEN "hs_sleep" ELSE "ch_sleep")
              /\ hs_seen' = hs_seen /\ ch_seen' = ch_seen
              /\ hs_match' = hs_match /\ ch_match' = ch_match)]_vars

\* The challenge loop is back at its head before the deadline and every
\* request it made has failed: the '/start' update is still unconfirmed, so
\* an answered request would have had an update to iterate.
C11_Witness ==
    /\ pc = "ch_loop"
    /\ ch_first_offset # -1
    /\ ch_seen = <<>>
    /\ offset = 0
    /\ outcome = "running"
    /\ now - start_time < timeout

(***************************************************************************)
(* C12. An update without a 'message' field is skipped: iterating over it  *)
(* sets offset to its update_id + 1, the loop goes on with the rest of the *)
(* batch, and it is never the update a loop returns on.                    *)
(***************************************************************************)
C12_NonMessageSkipped ==
    /\ [](hs_match # NoUpdate => hs_match.has_message)
    /\ [](ch_match # NoUpdate => ch_match.has_message)
    /\ [][(/\ pc \in {"hs_for", "ch_for"}
            /\ updates # <<>>
            /\ ~Head(updates).has_message
            /\ updates' # updates) =>
             (/\ offset' = Head(updates).update_id + 1
              /\ updates' = Tail(updates)
              /\ pc' = pc
              /\ outcome' = outcome
              /\ chat_id' = chat_id
              /\ hs_match' = hs_match /\ ch_match' = ch_match)]_vars

C12_Witness ==
    /\ pc = "hs_for"
    /\ hs_match = NoUpdate
    /\ hs_seen # <<>>
    /\ \E i \in 1..Len(queue) :
         /\ queue[i].update_id = hs_seen[Len(hs_seen)]
         /\ ~queue[i].has_message
         /\ offset = queue[i].update_id + 1

(***************************************************************************)
(* C13. Each wait loop ends: a loop that is running eventually returns on  *)
(* a qualifying update or returns its timeout outcome (None, which ends    *)
(* setup_telegram at line 231; False, which ends it at line 251).  No      *)
(* getUpdates request is made once now - start_time has reached timeout,   *)
(* and after a timeout outcome nothing more happens: no request, no new    *)
(* phase.                                                                  *)
(***************************************************************************)
C13_DeadlineEndsPhase ==
    /\ (pc \in HandshakePcs) ~> (hs_match # NoUpdate \/ outcome = "handshake_timeout")
    /\ (pc \in ChallengePcs) ~> (ch_match # NoUpdate \/ outcome = "challenge_timeout")
    /\ [][(pc \in {"hs_loop", "ch_loop"} /\ pc' \in {"hs_recv", "ch_recv"}) =>
             (now - start_time < timeout)]_vars
    /\ [][(outcome \in {"handshake_timeout", "challenge_timeout"}) =>
             (pc = "done" /\ resp = NoResponse /\ UNCHANGED vars)]_vars

C13_Witness ==
    /\ outcome = "handshake_timeout"
    /\ polled
    /\ hs_seen # <<>>
    /\ hs_match = NoUpdate
    /\ now - start_time >= timeout

(***************************************************************************)
(* C14. wait_for_pairing_code returns True only before the deadline: at    *)
(* the moment it returns True on an update, now - start_time is less than  *)
(* timeout, also when the request that delivered the update was made       *)
(* before the deadline and answered after it.                              *)
(***************************************************************************)
C14_SuccessWithinDeadline ==
    ch_match # NoUpdate => ch_end - start_time < timeout

(***************************************************************************)
(* Helpers of the properties of the .env file.                             *)
(***************************************************************************)

\* The lines of a content, without their terminators.
LinesOf(content) ==
    LET ls == IF content = NoFile THEN <<>> ELSE readlines(content)
    IN  [i \in 1..Len(ls) |->
            IF ls[i][Len(ls[i])] = "\n" THEN SubSeq(ls[i], 1, Len(ls[i]) - 1) ELSE ls[i]]

RECURSIVE Joined(_)
Joined(lines) == IF lines = <<>> THEN <<>> ELSE Head(lines) \o Joined(Tail(lines))

\* The example: [A=1, TELEGRAM_BOT_TOKEN=old, B=2] and what the binding
\* {new, 555} is to make of it.
ExampleFile ==
    <<"A", "=", "1", "\n">> \o TokenKey \o <<"o", "l", "d", "\n", "B", "=", "2", "\n">>

ExampleResult ==
    <<"A", "=", "1", "\n">> \o TokenKey \o <<"n", "e", "w", "\n", "B", "=", "2", "\n">>
      \o ChatIdKey \o <<"5", "5", "5", "\n">>

(***************************************************************************)
(* C15. The file written by a save is the prior file, byte for byte and in *)
(* the same order, except that each line beginning with one of the two     *)
(* keys is replaced where it stands by the line of the binding, and what   *)
(* follows the prior lines is, blank lines aside, the line of each key     *)
(* the prior file had no line of; [A=1, TELEGRAM_BOT_TOKEN=old, B=2] with  *)
(* {new, 555} gives exactly [A=1, TELEGRAM_BOT_TOKEN=new, B=2,             *)
(* TELEGRAM_CHAT_ID=555].                                                  *)
(***************************************************************************)
C15_MergePreservesContent ==
    outcome = "saved" =>
        LET old == IF file_before = NoFile THEN <<>> ELSE SplitLines(file_before)
            IsTok(l) == StartsWith(l, TokenKey)
            IsCid(l) == ~StartsWith(l, TokenKey) /\ StartsWith(l, ChatIdKey)
            kept == [i \in 1..Len(old) |->
                        IF IsTok(old[i]) THEN TokenKey \o token \o Newline
                        ELSE IF IsCid(old[i]) THEN ChatIdKey \o chat_id \o Newline
                        ELSE old[i]]
            body == Joined(kept)
            rest == SubSeq(env_file, Len(body) + 1, Len(env_file))
            added == SelectSeq(LinesOf(rest), LAMBDA l : l # <<>>)
        IN  /\ IsPrefix(body, env_file)
            /\ added = (IF \E i \in 1..Len(old) : IsTok(old[i])
                         THEN <<>> ELSE <<TokenKey \o token>>)
                        \o (IF \E i \in 1..Len(old) : IsCid(old[i])
                            THEN <<>> ELSE <<ChatIdKey \o chat_id>>)
            /\ file_before = ExampleFile => env_file = ExampleResult

(***************************************************************************)
(* C16. The save is idempotent: saving the same binding to the file a      *)
(* save has written leaves the file as it is, whatever the prior file was. *)
(***************************************************************************)
C16_MergeIdempotent ==
    outcome = "saved" => SavedContent(env_file, token, chat_id) = env_file

(***************************************************************************)
(* C17. After a save without error the file has a line that is exactly     *)
(* TELEGRAM_BOT_TOKEN=<token> and a line that is exactly                   *)
(* TELEGRAM_CHAT_ID=<chat_id>, whatever the prior file was.                *)
(***************************************************************************)
C17_KeyLinesPresent ==
    outcome = "saved" =>
        /\ \E i \in 1..Len(LinesOf(env_file)) : LinesOf(env_file)[i] = TokenKey \o token
        /\ \E i \in 1..Len(LinesOf(env_file)) : LinesOf(env_file)[i] = ChatIdKey \o chat_id

(***************************************************************************)
(* C18. setup_telegram never ends by an uncaught exception: every run      *)
(* that ends, ends by returning True or False, whatever the network, the   *)
(* file system and the operator's input (its end included) do.             *)
(***************************************************************************)
C18_NoCrash ==
    outcome # "crashed"

(***************************************************************************)
(* C19. A call of verify_bot_token makes one getMe request and returns:    *)
(* (False, None) when the request raised, the answer was malformed or its  *)
(* ok was false, and a success only for an answer with ok true; it is not  *)
(* the call that ends the run.  setup_telegram takes a token only after a  *)
(* success that came with a non-empty bot_info.                            *)
(***************************************************************************)
C19_VerifyOnceNeverRaises ==
    /\ last_verify # NoVerify =>
         /\ last_verify.requests = 1
         /\ last_verify.result[1] <=>
              last_verify.getme \in {"ok_with_result", "ok_without_result",
                                     "ok_result_empty_object", "ok_result_not_object",
                                     "ok_result_falsy"}
         /\ ~last_verify.result[1] => last_verify.result = <<FALSE, "None">>
         /\ last_verify.getme \in {"not_ok", "exception", "malformed"} =>
              /\ pc \in {"ask_retry", "ask_token", "done"}
              /\ outcome \in {"running", "declined"}
    /\ token # None =>
         /\ token \in verified
         /\ last_verify.result[1]
         /\ last_verify.result[2] \notin {"None", "empty_object", "falsy"}
    /\ pc \notin {"ask_setup", "press_enter", "ask_token", "ask_retry", "done"} => token # None

C19_Witness ==
    /\ pc = "ask_retry"
    /\ last_verify.getme = "exception"
    /\ last_verify.result = <<FALSE, "None">>
    /\ token = None

(***************************************************************************)
(* C20. A pairing-code message that could not be sent does not end the     *)
(* run: the warning is printed and wait_for_pairing_code is entered with   *)
(* the code of that message and the conversation it was addressed to; the  *)
(* run ends only as the challenge and the save decide.                     *)
(***************************************************************************)
C20_SendFailureNotFatal ==
    \A i \in CodeMessagesSent :
        /\ sent[i].ok <=> CouldNotSend \notin printed
        /\ ~sent[i].ok =>
             /\ pc \in ChallengePcs \cup {"send_confirm", "save", "done"}
             /\ outcome \in {"running", "challenge_timeout", "saved", "save_failed"}
             /\ outcome = "challenge_timeout" => ch_first_offset # -1 /\ now - start_time >= timeout
             /\ sent[i].code = pairing_code
             /\ sent[i].chat_id = chat_id

\* The run ends in success although the pairing-code message was not sent.
C20_Witness ==
    /\ outcome = "saved"
    /\ CouldNotSend \in printed
    /\ \E i \in CodeMessagesSent : ~sent[i].ok /\ ch_match.text = sent[i].code

(***************************************************************************)
(* Helpers of the properties of the phases.                                *)
(***************************************************************************)

\* The phase the code is in: "none" before the token loop, "ended" after
\* setup_telegram has returned.
PhaseOfPc ==
    CASE pc \in {"ask_setup", "press_enter"} -> "none"
      [] pc \in {"ask_token", "ask_retry", "start_handshake"} -> "token"
      [] pc \in HandshakePcs -> "handshake"
      [] pc \in ChallengePcs \cup {"send_code"} -> "challenge"
      [] pc \in {"send_confirm", "save"} -> "persist"
      [] pc = "done" -> "ended"

\* The place of a phase in the order of the phases.
PhaseRank(phase) == CHOOSE i \in 1..Len(PhaseOrder) : PhaseOrder[i] = phase

(***************************************************************************)
(* C21. The phases of one run are entered in one direction: each phase     *)
(* entered comes later in the order token, handshake, challenge, persist,  *)
(* finished than all entered before it, and the phase the code is in is    *)
(* the one entered last, so a phase that has been left is never the        *)
(* current one again.  After a timeout setup_telegram has returned: the    *)
(* phase that timed out is the last one entered and no step is possible.   *)
(***************************************************************************)
C21_PhasesOneDirection ==
    /\ \A i, j \in 1..Len(phases) : i < j => PhaseRank(phases[i]) < PhaseRank(phases[j])
    /\ PhaseOfPc = "none" => phases = <<>>
    /\ PhaseOfPc \notin {"none", "ended"} =>
         phases # <<>> /\ phases[Len(phases)] = PhaseOfPc
    /\ outcome = "handshake_timeout" =>
         pc = "done" /\ phases[Len(phases)] = "handshake"
    /\ outcome = "challenge_timeout" =>
         pc = "done" /\ phases[Len(phases)] = "challenge"
    /\ pc = "done" => ~ENABLED Next

C21_Witness ==
    /\ pc = "save"
    /\ phases = <<"token", "handshake", "challenge", "persist">>
    /\ Len(sent) = 2

(***************************************************************************)
(* C22. A failure of the file operations of the save is an outcome of its  *)
(* own: setup_telegram returns False, having printed the token and the     *)
(* chat id it holds; it returns True only when the file was written, and   *)
(* once the save has run the run has ended by one of the two returns.      *)
(***************************************************************************)
C22_SaveFailureReported ==
    /\ outcome = "save_failed" =>
         /\ ~retval
         /\ token # None /\ chat_id # None
         /\ reported = [token |-> token, chat_id |-> chat_id]
    /\ reported # NoReport => outcome = "save_failed"
    /\ outcome = "saved" => env_file = SavedContent(file_before, token, chat_id)
    /\ phases # <<>> /\ phases[Len(phases)] = "finished" =>
         pc = "done" /\ outcome \in {"saved", "save_failed"}

\* The write failed after open(env_file, 'w') had emptied the file and 10
\* characters of the new content had reached it.
C22_Witness ==
    /\ outcome = "save_failed"
    /\ reported.chat_id = Str(777)
    /\ file_before # NoFile
    /\ env_file = <<"A", "=", "1", "\n", "T", "E", "L", "E", "G", "R">>

(***************************************************************************)
(* C23. The scenario: token T1 was verified, the handshake loop returned   *)
(* on update 1 = '/start' of conversation 777, and a getUpdates request of *)
(* the challenge loop delivered update 2 = the generated code, of          *)
(* conversation 777.  Then the challenge loop returned True on update 2,   *)
(* the pairing-code message was addressed to conversation 777, and the     *)
(* run ends by the save: unless a file operation fails setup_telegram      *)
(* returns True and the file has the lines TELEGRAM_BOT_TOKEN=T1 and       *)
(* TELEGRAM_CHAT_ID=777.                                                   *)
(***************************************************************************)
C23_Scenario ==
    LET start == MakeUpdate(1, [has_message |-> TRUE, has_chat |-> TRUE,
                                chat |-> 777, text |-> StartCommand])
        code  == MakeUpdate(2, [has_message |-> TRUE, has_chat |-> TRUE,
                                chat |-> 777, text |-> pairing_code])
    IN  (/\ token = <<"T", "1">>
         /\ hs_match = start
         /\ 2 \in Range(ch_seen)
         /\ \E i \in 1..Len(queue) : queue[i] = code)
        =>
        (/\ ch_match = code
         /\ pc \in {"send_confirm", "save", "done"}
         /\ CodeMessagesSent # {}
         /\ \A i \in CodeMessagesSent :
              sent[i].chat_id = <<"7", "7", "7">> /\ sent[i].code = pairing_code
         /\ pc = "done" => outcome \in {"saved", "save_failed"}
         /\ outcome = "save_failed" => reported # NoReport
         /\ outcome = "saved" =>
              /\ retval
              /\ \E i \in 1..Len(LinesOf(env_file)) :
                   LinesOf(env_file)[i] = TokenKey \o <<"T", "1">>
              /\ \E i \in 1..Len(LinesOf(env_file)) :
                   LinesOf(env_file)[i] = ChatIdKey \o <<"7", "7", "7">>)

C23_Witness ==
    /\ outcome = "saved"
    /\ token = <<"T", "1">>
    /\ hs_match.update_id = 1 /\ hs_match.chat = 777 /\ hs_match.text = StartCommand
    /\ ch_match.update_id = 2 /\ ch_match.chat = 777 /\ ch_match.text = pairing_code
    /\ \A i \in 1..Len(sent) : sent[i].ok
    /\ file_before # NoFile
    /\ \E i \in 1..Len(LinesOf(env_file)) :
         LinesOf(env_file)[i] = ChatIdKey \o <<"7", "7", "7">>

(***************************************************************************)
(* C24. setup_telegram returns True only when the save has run and the     *)
(* file exists and gives both keys the values of this run; os.environ then *)
(* holds, for each key, the value the file gives it.                       *)
(***************************************************************************)
C24_TrueOnlyAfterWrite ==
    /\ retval =>
         /\ phases # <<>> /\ phases[Len(phases)] = "finished"
         /\ env_file # NoFile
         /\ token \in ValuesOf(env_file, TokenKey)
         /\ chat_id \in ValuesOf(env_file, ChatIdKey)
         /\ environ.TELEGRAM_BOT_TOKEN = token
         /\ environ.TELEGRAM_CHAT_ID = chat_id
    /\ environ.TELEGRAM_BOT_TOKEN # None =>
         environ.TELEGRAM_BOT_TOKEN \in ValuesOf(env_file, TokenKey)
    /\ environ.TELEGRAM_CHAT_ID # None =>
         environ.TELEGRAM_CHAT_ID \in ValuesOf(env_file, ChatIdKey)

C24_Witness ==
    /\ retval
    /\ file_before = NoFile
    /\ environ.TELEGRAM_CHAT_ID = <<"8", "8", "8">>
    /\ ValuesOf(env_file, ChatIdKey) = {<<"8", "8", "8">>}

(***************************************************************************)
(* C27. Until the save, and on every return of False before it (setup      *)
(* skipped, retry declined, handshake timeout, challenge timeout), the     *)
(* file and the two variables of os.environ are as they were before the    *)
(* run; when the save fails, the two variables of os.environ are as they   *)
(* were.                                                                   *)
(***************************************************************************)
C27_FailureLeavesStore ==
    /\ outcome \in {"running", "skipped", "declined", "handshake_timeout", "challenge_timeout"} =>
         /\ env_file = file_before
         /\ environ.TELEGRAM_BOT_TOKEN = None
         /\ environ.TELEGRAM_CHAT_ID = None
    /\ outcome = "save_failed" =>
         /\ environ.TELEGRAM_BOT_TOKEN = None
         /\ environ.TELEGRAM_CHAT_ID = None

C27_Witness ==
    /\ outcome = "challenge_timeout"
    /\ chat_id # None
    /\ file_before # NoFile
    /\ env_file = file_before
    /\ environ.TELEGRAM_CHAT_ID = None

(***************************************************************************)
(* C25. In wait_for_pairing_code, iterating over a message of a            *)
(* conversation other than chat_id changes the offset and nothing else of  *)
(* the pairing: start_time (the deadline), chat_id and pairing_code stay,  *)
(* the loop goes on with the rest of the batch, nothing is returned, sent, *)
(* printed or stored.                                                      *)
(***************************************************************************)
C25_OtherChatsChangeOnlyCursor ==
    [][(/\ pc = "ch_for"
        /\ updates # <<>>
        /\ Head(updates).has_message
        /\ Head(updates).has_chat
        /\ Str(Head(updates).chat) # chat_id
        /\ updates' # updates) =>
         (/\ offset' = Head(updates).update_id + 1
          /\ updates' = Tail(updates)
          /\ pc' = "ch_for"
          /\ start_time' = start_time
          /\ chat_id' = chat_id
          /\ pairing_code' = pairing_code
          /\ outcome' = outcome
          /\ ch_match' = ch_match
          /\ UNCHANGED <<token, now, queue, sent, env_file, environ, printed, raised>>)]_vars

C25_Witness ==
    /\ pc = "ch_for"
    /\ ch_match = NoUpdate
    /\ outcome = "running"
    /\ ch_seen # <<>>
    /\ \E i \in 1..Len(queue) :
         /\ queue[i].update_id = ch_seen[Len(ch_seen)]
         /\ queue[i].has_chat
         /\ Str(queue[i].chat) # chat_id
         /\ queue[i].text = pairing_code
         /\ offset = queue[i].update_id + 1

(***************************************************************************)
(* C26. The pairing code is a string of 6 characters, each a decimal       *)
(* digit; it is generated once in a run, when the handshake begins; at     *)
(* most one pairing-code message is sent, it carries that code, and the    *)
(* text the challenge loop returns True on is that code.                   *)
(***************************************************************************)
C26_CodeSixDigitsOnce ==
    /\ pairing_code # None =>
         /\ Len(pairing_code) = 6
         /\ \A i \in 1..Len(pairing_code) :
              pairing_code[i] \in {"0", "1", "2", "3", "4", "5", "6", "7", "8", "9"}
    /\ pairing_code # None <=> \E i \in 1..Len(phases) : phases[i] = "handshake"
    /\ Len(SelectSeq(phases, LAMBDA ph : ph = "handshake")) <= 1
    /\ Cardinality(CodeMessagesSent) <= 1
    /\ \A i \in CodeMessagesSent : sent[i].code = pairing_code
    /\ ch_match # NoUpdate =>
         \E i \in CodeMessagesSent : Strip(ch_match.text) = sent[i].code

C26_Witness ==
    /\ pc = "send_confirm"
    /\ pairing_code = Code482913
    /\ sent[1].code = Code482913
    /\ ch_match.text = Code482913

(***************************************************************************)
(* C28. At most one 'Pairing successful' message is sent in a run; it is   *)
(* addressed to chat_id, the conversation of the update the challenge loop *)
(* returned True on, and sent only after that return.  None is sent on a   *)
(* run that ends before (skipped, declined, handshake or challenge         *)
(* timeout).  It is sent before the save: whenever the save is about to    *)
(* run or has run, with success or not, the message has been sent.         *)
(***************************************************************************)
C28_ConfirmationOnceAfterSuccess ==
    /\ Cardinality(ConfirmMessagesSent) <= 1
    /\ \A i \in ConfirmMessagesSent :
         /\ sent[i].chat_id = chat_id
         /\ ch_match # NoUpdate
         /\ Str(ch_match.chat) = sent[i].chat_id
         /\ \E j \in CodeMessagesSent : j < i
    /\ outcome \in {"skipped", "declined", "handshake_timeout", "challenge_timeout"} =>
         ConfirmMessagesSent = {}
    /\ pc \in HandshakePcs \cup ChallengePcs \cup {"send_code", "send_confirm"} =>
         ConfirmMessagesSent = {}
    /\ pc = "save" =>
         Cardinality(ConfirmMessagesSent) = 1 /\ env_file = file_before
    /\ outcome \in {"saved", "save_failed"} => Cardinality(ConfirmMessagesSent) = 1

C28_Witness ==
    /\ outcome = "save_failed"
    /\ Len(sent) = 2
    /\ sent[2].kind = "confirm"
    /\ sent[2].chat_id = chat_id
    /\ environ.TELEGRAM_CHAT_ID = None

(***************************************************************************)
(* C29. In wait_for_pairing_code, iterating over a message of the          *)
(* conversation chat_id whose text is neither taken as the code nor a      *)
(* command changes the offset only: the wait goes on with the rest of the  *)
(* batch and start_time (the deadline) stays.  And whenever the loop has   *)
(* iterated over a message of chat_id whose text is taken as the code, it  *)
(* has returned True on it, whatever was iterated before.                  *)
(***************************************************************************)
C29_WrongGuessesNotPenalised ==
    /\ [][(/\ pc = "ch_for"
           /\ updates # <<>>
           /\ Head(updates).has_message
           /\ Head(updates).has_chat
           /\ Str(Head(updates).chat) = chat_id
           /\ Strip(Head(updates).text) # pairing_code
           /\ ~StartsWith(Strip(Head(updates).text), <<"/">>)
           /\ updates' # updates) =>
            (/\ offset' = Head(updates).update_id + 1
             /\ updates' = Tail(updates)
             /\ pc' = "ch_for"
             /\ outcome' = outcome
             /\ start_time' = start_time
             /\ chat_id' = chat_id
             /\ pairing_code' = pairing_code
             /\ ch_match' = ch_match)]_vars
    /\ [](\A i \in Examined(ch_seen) :
            (/\ queue[i].has_chat
             /\ Str(queue[i].chat) = chat_id
             /\ Strip(queue[i].text) = pairing_code)
            => ch_match = queue[i])

\* True was returned on update 2 after the wrong text of update 1.
C29_Witness ==
    /\ pc = "send_confirm"
    /\ ch_match.update_id = 2
    /\ ch_seen = <<1, 2>>
    /\ \E i \in Examined(ch_seen) :
         /\ queue[i].update_id = 1
         /\ queue[i].has_chat
         /\ Str(queue[i].chat) = chat_id
         /\ Strip(queue[i].text) # pairing_code
         /\ ~StartsWith(queue[i].text, <<"/">>)

(***************************************************************************)
(* C30. A message update without 'chat' does not wedge a wait loop: the    *)
(* step that iterates over it has set offset to its update_id + 1, the     *)
(* exception is swallowed (the run goes on, to the sleep of the loop), and *)
(* the updates after it in the batch stay unconfirmed with ids not below   *)
(* offset.  In a loop, every unconfirmed update below offset has been      *)
(* iterated over, so the next request delivers all that have not been.     *)
(***************************************************************************)
C30_MalformedDoesNotWedge ==
    /\ [][(/\ pc \in {"hs_for", "ch_for"}
           /\ updates # <<>>
           /\ Head(updates).has_message
           /\ ~Head(updates).has_chat
           /\ updates' # updates) =>
            (/\ offset' = Head(updates).update_id + 1
             /\ outcome' = "running"
             /\ pc' = (IF pc = "hs_for" THEN "hs_sleep" ELSE "ch_sleep")
             /\ hs_match' = hs_match /\ ch_match' = ch_match
             /\ start_time' = start_time
             /\ \A k \in 2..Len(updates) :
                  /\ updates[k].update_id >= offset'
                  /\ \E i \in 1..Len(queue') : queue'[i] = updates[k])]_vars
    /\ [](pc \in HandshakePcs =>
            \A i \in 1..Len(queue) :
                queue[i].update_id < offset => queue[i].update_id \in Range(hs_seen))
    /\ [](pc \in ChallengePcs =>
            \A i \in 1..Len(queue) :
                queue[i].update_id < offset => queue[i].update_id \in Range(ch_seen))

\* The handshake loop returned on update 2 before the deadline, after the
\* processing of update 1 had raised.
C30_Witness ==
    /\ pc = "send_code"
    /\ hs_match.update_id = 2
    /\ 1 \in raised
    /\ hs_seen = <<1, 2>>
    /\ now - start_time < timeout

====
